---------------------------- MODULE Spec2Model ----------------------------
(***************************************************************************)
(* Model of scripts/bundle-woff2-fonts.py: the codepoint policy built at   *)
(* import, the per-family module emitter, the two-pass manifest builder    *)
(* and main, which runs them in sequence over the sorted catalog.          *)
(*                                                                         *)
(* Text that the script lowercases, sorts or concatenates (module names,   *)
(* register_as, substitute_for, output file names) is a sequence of        *)
(* one-character strings, so that str.lower(), string comparison and       *)
(* f-string concatenation are computed.  Variant tags and source file      *)
(* names are only copied and tested for existence; they stay TLA+ strings. *)
(*                                                                         *)
(* scripts/generate-font-stress-test.py, the deck generator, is modelled   *)
(* in its own section and has its own specification, SpecStress.           *)
(***************************************************************************)
EXTENDS Integers, Sequences, FiniteSets, TLC

VARIABLES
    CODEPOINTS,     \* the module-level set built by the loop at lines 45-48
    rangeIdx,       \* position of that loop in UNICODE_RANGES (Len+1: finished)
    cp,             \* the inner loop variable cp
    FONT_FAMILIES,  \* the catalog, in declaration order
    existing,       \* the source files present in FONTS_DIR
    pc,             \* position of main
    items,          \* the list sorted(FONT_FAMILIES.items()) the current loop runs over
    famIdx,         \* position of the current loop in items
    varIdx,         \* position of generate_family_module in the variants
    lines,          \* the export lines generate_family_module has appended
    manifest_lines, \* the lines generate_manifest has appended
    outdir,         \* OUTPUT_DIR: file name -> content written
    writeLog,       \* names of the files written by the current run, in order
    total_modules,  \* main's counter
    run,            \* number of the current run of main
    prevOut,        \* OUTPUT_DIR as the previous completed run left it
    failure,        \* the call that raised in the current run, "none" if none did
    subsetLog,      \* the files subset_to_woff2 was called on in the current run
    prs,            \* generate-font-stress-test.py: the deck, a list of slides
    at,             \* position of that script's main
    callIdx,        \* which of main's showcase calls / key fonts is running
    fonts,          \* the fonts argument of the slide function running
    fontIdx,        \* position of its loop over fonts
    lineIdx,        \* position of its inner loop (sizes, lines)
    y_pos           \* its y_pos (y), in units of 1/PerInch inch

vars == <<CODEPOINTS, rangeIdx, cp, FONT_FAMILIES, existing, pc, items, famIdx, varIdx,
          lines, manifest_lines, outdir, writeLog, total_modules, run, prevOut,
          failure, subsetLog, prs, at, callIdx, fonts, fontIdx, lineIdx, y_pos>>

policyVars == <<CODEPOINTS, rangeIdx, cp>>
pipelineVars == <<FONT_FAMILIES, existing, pc, items, famIdx, varIdx, lines,
                  manifest_lines, outdir, writeLog, total_modules, run, prevOut,
                  failure, subsetLog>>
stressVars == <<prs, at, callIdx, fonts, fontIdx, lineIdx, y_pos>>

\* Number of runs of main over the same catalog and source directory.
MaxRuns == 2

\* Codepoints 0 .. CodepointLimit are the ones membership is examined for.
CodepointLimit == 65536

(***************************************************************************)
(* Characters and strings                                                  *)
(***************************************************************************)

\* The characters of the catalog's names and of the paths built from them.
Upper == <<"A","B","C","D","E","F","G","H","I","J","K","L","M",
           "N","O","P","Q","R","S","T","U","V","W","X","Y","Z">>
Lower == <<"a","b","c","d","e","f","g","h","i","j","k","l","m",
           "n","o","p","q","r","s","t","u","v","w","x","y","z">>
Digit == <<"0","1","2","3","4","5","6","7","8","9">>

IndexOf(c, s) == CHOOSE i \in 1..Len(s) : s[i] = c
Among(c, s) == \E i \in 1..Len(s) : s[i] = c

\* The code point of c
CodePoint(c) ==
    CASE Among(c, Upper) -> 64 + IndexOf(c, Upper)
      [] Among(c, Lower) -> 96 + IndexOf(c, Lower)
      [] Among(c, Digit) -> 47 + IndexOf(c, Digit)
      [] c = " " -> 32
      [] c = "-" -> 45
      [] c = "." -> 46
      [] c = "/" -> 47

Characters ==
    {Upper[i] : i \in 1..Len(Upper)} \cup {Lower[i] : i \in 1..Len(Lower)}
        \cup {Digit[i] : i \in 1..Len(Digit)} \cup {" ", "-", ".", "/"}

\* ord(c), tabulated
OrdTable == [c \in Characters |-> CodePoint(c)]
Ord(c) == OrdTable[c]

\* chr(n), for the codes of the letters
Chr(n) == IF n >= 97 THEN Lower[n - 96] ELSE Upper[n - 64]

\* str.lower() on one character: A-Z (65..90) move to a-z, the rest stay.
LowerTable ==
    [c \in Characters |->
        IF Ord(c) >= 65 /\ Ord(c) <= 90 THEN Chr(Ord(c) + 32) ELSE c]
LowerChar(c) == LowerTable[c]

\* str.lower()
lower(s) == [i \in 1..Len(s) |-> LowerChar(s[i])]

\* Python's s < t on strings: lexicographic by code point, a proper prefix first.
RECURSIVE StrLess(_, _)
StrLess(s, t) ==
    IF t = <<>> THEN FALSE
    ELSE IF s = <<>> THEN TRUE
    ELSE IF Ord(Head(s)) < Ord(Head(t)) THEN TRUE
    ELSE IF Ord(Head(s)) > Ord(Head(t)) THEN FALSE
    ELSE StrLess(Tail(s), Tail(t))

(***************************************************************************)
(* Codepoint policy                                                        *)
(***************************************************************************)

UNICODE_RANGES ==
    << <<32, 591>>,        \* 0x0020, 0x024F
       <<8192, 8303>>,     \* 0x2000, 0x206F
       <<8352, 8399>>,     \* 0x20A0, 0x20CF
       <<8448, 8527>>,     \* 0x2100, 0x214F
       <<8592, 8703>>,     \* 0x2190, 0x21FF
       <<8704, 8959>>,     \* 0x2200, 0x22FF
       <<8960, 9215>>,     \* 0x2300, 0x23FF
       <<9632, 9727>>,     \* 0x25A0, 0x25FF
       <<9728, 9983>>,     \* 0x2600, 0x26FF
       <<64256, 64262>>,   \* 0xFB00, 0xFB06
       <<65279, 65279>>,   \* 0xFEFF, 0xFEFF
       <<65532, 65533>> >> \* 0xFFFC, 0xFFFD

\* The stop argument of range(start, end + 1), as the range's end being left out.
RangeStopExclusive(end) == end

\* The stop argument of range(start, end + 1).
RangeStop(end) == end + 1

\* range(start, stop) as a set
Range(start, stop) == {n \in start..(stop - 1) : TRUE}

\* CODEPOINTS once the loop at lines 45-48 has finished.
BuiltCodepoints ==
    UNION {Range(UNICODE_RANGES[i][1], RangeStop(UNICODE_RANGES[i][2])) :
               i \in 1..Len(UNICODE_RANGES)}

(***************************************************************************)
(* The catalog                                                             *)
(*                                                                         *)
(* A family is module_name (the key of FONT_FAMILIES) with register_as,    *)
(* substitute_for and variants; variants is the dict in insertion order.   *)
(* An absent substitute_for is the empty string: the script tests it by    *)
(* truth value only (lines 490, 496, 504), which None and "" share.        *)
(***************************************************************************)

\* FONT_FAMILIES["carlito"]
Carlito ==
    [module_name |-> <<"c","a","r","l","i","t","o">>,
     register_as |-> <<"C","a","r","l","i","t","o">>,
     substitute_for |-> <<"C","a","l","i","b","r","i">>,
     variants |-> <<
          [name |-> "regular", ttf |-> "Carlito-Regular.ttf"],
          [name |-> "bold", ttf |-> "Carlito-Bold.ttf"],
          [name |-> "italic", ttf |-> "Carlito-Italic.ttf"],
          [name |-> "boldItalic", ttf |-> "Carlito-BoldItalic.ttf"] >>]

\* FONT_FAMILIES["calibri-light"]
CalibriLight ==
    [module_name |-> <<"c","a","l","i","b","r","i","-","l","i","g","h","t">>,
     register_as |-> <<"C","a","l","i","b","r","i"," ","L","i","g","h","t">>,
     substitute_for |-> <<"C","a","l","i","b","r","i"," ","L","i","g","h","t">>,
     variants |-> <<
          [name |-> "regular", ttf |-> "Carlito-Regular.ttf"] >>]

\* FONT_FAMILIES["caladea"]
Caladea ==
    [module_name |-> <<"c","a","l","a","d","e","a">>,
     register_as |-> <<"C","a","l","a","d","e","a">>,
     substitute_for |-> <<"C","a","m","b","r","i","a">>,
     variants |-> <<
          [name |-> "regular", ttf |-> "Caladea-Regular.ttf"],
          [name |-> "bold", ttf |-> "Caladea-Bold.ttf"],
          [name |-> "italic", ttf |-> "Caladea-Italic.ttf"],
          [name |-> "boldItalic", ttf |-> "Caladea-BoldItalic.ttf"] >>]

\* FONT_FAMILIES["selawik"]
Selawik ==
    [module_name |-> <<"s","e","l","a","w","i","k">>,
     register_as |-> <<"S","e","l","a","w","i","k">>,
     substitute_for |-> <<"S","e","g","o","e"," ","U","I">>,
     variants |-> <<
          [name |-> "regular", ttf |-> "Selawik-Regular.ttf"],
          [name |-> "bold", ttf |-> "Selawik-Bold.ttf"] >>]

\* FONT_FAMILIES["roboto-slab"]
RobotoSlab ==
    [module_name |-> <<"r","o","b","o","t","o","-","s","l","a","b">>,
     register_as |-> <<"R","o","b","o","t","o"," ","S","l","a","b">>,
     substitute_for |-> <<>>,
     variants |-> <<
          [name |-> "regular", ttf |-> "RobotoSlab-Regular.ttf"],
          [name |-> "bold", ttf |-> "RobotoSlab-Bold.ttf"] >>]

\* FONT_FAMILIES["roboto-slab-light"]
RobotoSlabLight ==
    [module_name |-> <<"r","o","b","o","t","o","-","s","l","a","b","-","l","i","g","h","t">>,
     register_as |-> <<"R","o","b","o","t","o"," ","S","l","a","b"," ","L","i","g","h","t">>,
     substitute_for |-> <<>>,
     variants |-> <<
          [name |-> "regular", ttf |-> "RobotoSlab-Light.ttf"] >>]

\* the carlito entry declared with the variants regular and bold only
CarlitoTwo ==
    [module_name |-> <<"c","a","r","l","i","t","o">>,
     register_as |-> <<"C","a","r","l","i","t","o">>,
     substitute_for |-> <<"C","a","l","i","b","r","i">>,
     variants |-> <<
          [name |-> "regular", ttf |-> "Carlito-Regular.ttf"],
          [name |-> "bold", ttf |-> "Carlito-Bold.ttf"] >>]

\* a family that substitutes for Arial
LiberationSansArial ==
    [module_name |-> <<"l","i","b","e","r","a","t","i","o","n","-","s","a","n","s">>,
     register_as |-> <<"L","i","b","e","r","a","t","i","o","n"," ","S","a","n","s">>,
     substitute_for |-> <<"A","r","i","a","l">>,
     variants |-> <<
          [name |-> "regular", ttf |-> "LiberationSans-Regular.ttf"],
          [name |-> "bold", ttf |-> "LiberationSans-Bold.ttf"] >>]

\* a second family that substitutes for Arial, written in another case
ArimoArial ==
    [module_name |-> <<"a","r","i","m","o">>,
     register_as |-> <<"A","r","i","m","o">>,
     substitute_for |-> <<"A","R","I","A","L">>,
     variants |-> <<
          [name |-> "regular", ttf |-> "Arimo-Regular.ttf"] >>]

\* a family registered under the name the two above substitute for
ArialNative ==
    [module_name |-> <<"a","r","i","a","l">>,
     register_as |-> <<"A","r","i","a","l">>,
     substitute_for |-> <<>>,
     variants |-> <<
          [name |-> "regular", ttf |-> "Arial.ttf"] >>]

\* a family whose substitute_for is its register_as in another case
TinosSelf ==
    [module_name |-> <<"t","i","n","o","s">>,
     register_as |-> <<"T","i","n","o","s">>,
     substitute_for |-> <<"T","I","N","O","S">>,
     variants |-> <<
          [name |-> "regular", ttf |-> "Tinos-Regular.ttf"] >>]

\* The catalogs main is run over, each in its declaration order: the head of the
\* shipped FONT_FAMILIES, three more of its entries, the carlito entry with two
\* variants, and a catalog in which manifest keys collide (two families with
\* the same substitute_for up to case, a third registered under that name).
ShippedHead == <<Carlito, CalibriLight, Caladea>>
ShippedMixed == <<Selawik, RobotoSlabLight, RobotoSlab>>
Scenario == <<CarlitoTwo>>
SharedSubstitute == <<LiberationSansArial, TinosSelf, ArimoArial, ArialNative>>

Catalogs == {ShippedHead, ShippedMixed, Scenario, SharedSubstitute}

\* The source files a catalog refers to.
SourceFiles(catalog) ==
    UNION {{catalog[i].variants[j].ttf : j \in 1..Len(catalog[i].variants)} :
               i \in 1..Len(catalog)}

(***************************************************************************)
(* Pure parts of the pipeline                                              *)
(***************************************************************************)

\* The place of pairs[j] in ascending module_name order: one more than the
\* number of items whose module_name is smaller.  The names are the keys of a
\* dict, hence distinct, so the places are 1..Len(pairs), each taken once.
RankByName(j, pairs) ==
    1 + Cardinality({k \in 1..Len(pairs) :
                        StrLess(pairs[k].module_name, pairs[j].module_name)})

SortByName(pairs) ==
    LET rank == [j \in 1..Len(pairs) |-> RankByName(j, pairs)]
    IN  [i \in 1..Len(pairs) |-> pairs[CHOOSE j \in 1..Len(pairs) : rank[j] = i]]

\* The catalog iterated as declared, with no sort.
declared(pairs) == pairs

\* The catalog iterated in descending module_name order.
sortedDescending(pairs) ==
    [i \in 1..Len(pairs) |-> SortByName(pairs)[Len(pairs) + 1 - i]]

\* sorted(FONT_FAMILIES.items()): ascending module_name (the keys are unique, so
\* the comparison never reaches the family_def).
sorted(pairs) == SortByName(pairs)

\* (FONTS_DIR / ttf_filename).exists()
Exists(ttf_filename) == ttf_filename \in existing

\* list(family_def["variants"].keys())
VariantNames(family_def) ==
    [j \in 1..Len(family_def.variants) |-> family_def.variants[j].name]

\* family_def["variants"][v]
TtfOf(family_def, v) ==
    family_def.variants[CHOOSE j \in 1..Len(family_def.variants) :
                            family_def.variants[j].name = v].ttf

\* The variants list with the existence filter left out.
DeclaredVariants(family_def) == VariantNames(family_def)

\* existing_variants: [v for v in variants if (FONTS_DIR / ...[v]).exists()]
ExistingVariants(family_def) ==
    SelectSeq(VariantNames(family_def), LAMBDA v : Exists(TtfOf(family_def, v)))

\* f"./{module_name}.js"
ModuleRef(module_name) == <<".", "/">> \o module_name \o <<".", "j", "s">>

\* f"{module_name}.ts", the name of the module file under OUTPUT_DIR
ModuleFile(module_name) == module_name \o <<".", "t", "s">>

\* "manifest.ts"
ManifestFile == <<"m","a","n","i","f","e","s","t",".","t","s">>

\* The entry of pass 1 with the module reference built from the manifest key
\* instead of the module name.
PrimaryEntryModuleFromKey(family_def) ==
    [kind |-> "entry",
     key |-> lower(family_def.register_as),
     module |-> ModuleRef(lower(family_def.register_as)),
     registerAs |-> family_def.register_as,
     substituteFor |-> family_def.substitute_for,
     variants |-> ExistingVariants(family_def)]

\* The entry of pass 1 keyed by register_as as declared, not lowercased.
PrimaryEntryRawKey(family_def) ==
    [kind |-> "entry",
     key |-> family_def.register_as,
     module |-> ModuleRef(family_def.module_name),
     registerAs |-> family_def.register_as,
     substituteFor |-> family_def.substitute_for,
     variants |-> ExistingVariants(family_def)]

\* The lines pass 1 appends for one family, as one entry.
PrimaryEntry(family_def) ==
    [kind |-> "entry",
     key |-> lower(family_def.register_as),
     module |-> ModuleRef(family_def.module_name),
     registerAs |-> family_def.register_as,
     substituteFor |-> family_def.substitute_for,
     variants |-> ExistingVariants(family_def)]

\* The alias entry carrying the family's own register_as.
AliasEntryOwnName(family_def) ==
    [kind |-> "entry",
     key |-> lower(family_def.substitute_for),
     module |-> ModuleRef(family_def.module_name),
     registerAs |-> family_def.register_as,
     substituteFor |-> family_def.substitute_for,
     variants |-> ExistingVariants(family_def)]

\* The alias entry listing every declared variant.
AliasEntryDeclaredVariants(family_def) ==
    [kind |-> "entry",
     key |-> lower(family_def.substitute_for),
     module |-> ModuleRef(family_def.module_name),
     registerAs |-> family_def.substitute_for,
     substituteFor |-> family_def.substitute_for,
     variants |-> VariantNames(family_def)]

\* The lines pass 2 appends for one family, as one entry.
AliasEntry(family_def) ==
    [kind |-> "entry",
     key |-> lower(family_def.substitute_for),
     module |-> ModuleRef(family_def.module_name),
     registerAs |-> family_def.substitute_for,
     substituteFor |-> family_def.substitute_for,
     variants |-> ExistingVariants(family_def)]

\* The names compared as written, without lower().
SameKeyExact(family_def) == family_def.substitute_for = family_def.register_as

\* The comparison of the two keys left out: the alias is never skipped for
\* having the key of its own primary entry.
SameKeyNever(family_def) == FALSE

\* key_sub == key_orig
SameKey(family_def) ==
    lower(family_def.substitute_for) = lower(family_def.register_as)

\* Pass 2 with no test of existing_variants.
AliasNeedsNoVariant(family_def) == TRUE

\* not (not existing_variants), the test of pass 2
AliasHasVariants(family_def) == ExistingVariants(family_def) # <<>>

\* Pass 2 appends an entry for the family: none of its three continue's is taken.
EmitsAlias(family_def) ==
    /\ family_def.substitute_for # <<>>
    /\ ~SameKey(family_def)
    /\ AliasHasVariants(family_def)

\* subset_to_woff2(ttf_path): the payload the subsetter returns for the file,
\* a function of the file (and of CODEPOINTS, fixed before main runs).
subset_to_woff2(ttf_path) == [woff2_of |-> ttf_path]

\* base64.b64encode(woff2_data).decode("ascii")
b64encode(woff2_data) == [base64_of |-> woff2_data]

\* f"export const {variant_name} = '{b64}';"
ExportLine(variant_name, b64) ==
    [kind |-> "export", name |-> variant_name, value |-> b64]

\* The first lines of a module: the comment naming register_as, prettier-ignore.
ModuleHeader(family_def) ==
    [kind |-> "header", register_as |-> family_def.register_as]

\* The first lines of the manifest: the comment, the interface, the opening.
ManifestHeader == [kind |-> "header", register_as |-> <<>>]

\* The closing "};" of the manifest.
ManifestFooter == [kind |-> "footer"]

\* The file opened for appending: what it held stays in front of the new text.
AppendText(dir, name, content) ==
    [n \in DOMAIN dir \cup {name} |->
        IF n = name
        THEN (IF name \in DOMAIN dir THEN dir[name] ELSE <<>>) \o content
        ELSE dir[n]]

\* path.write_text(content): the file holds content, whatever it held before.
WriteText(dir, name, content) ==
    [n \in DOMAIN dir \cup {name} |-> IF n = name THEN content ELSE dir[n]]

\* What path.write_text(content) can leave behind when it raises: the directory
\* as it was (the file could not be opened), or the file opened for writing,
\* emptied, and holding only the part of content written before the error.
FailedWrite(dir, name, content) ==
    {dir} \cup {WriteText(dir, name, SubSeq(content, 1, n)) :
                    n \in 0..(Len(content) - 1)}

\* The object the literal BUNDLED_FONTS = { ... } of the written manifest
\* evaluates to: a key written more than once keeps the value written last.
BUNDLED_FONTS(entries) ==
    [k \in {entries[i].key : i \in 1..Len(entries)} |->
        entries[CHOOSE i \in 1..Len(entries) :
                    /\ entries[i].key = k
                    /\ \A j \in (i + 1)..Len(entries) : entries[j].key # k]]

\* The export names of a written module, in order.
ExportNames(content) ==
    LET ex == SelectSeq(content, LAMBDA l : l.kind = "export")
    IN  [j \in 1..Len(ex) |-> ex[j].name]

\* The entries of a written manifest, in order.
Entries(content) == SelectSeq(content, LAMBDA l : l.kind = "entry")

\* generate-font-stress-test.py is not running.
StressIdle ==
    /\ prs = <<>>
    /\ at = "idle"
    /\ callIdx = 1
    /\ fonts = <<>>
    /\ fontIdx = 1
    /\ lineIdx = 1
    /\ y_pos = 0

(***************************************************************************)
(* The loop that builds CODEPOINTS (lines 45-48)                           *)
(***************************************************************************)

InitPolicy ==
    /\ CODEPOINTS = {}
    /\ rangeIdx = 1
    /\ cp = UNICODE_RANGES[1][1]
    /\ FONT_FAMILIES = Scenario
    /\ existing = {}
    /\ pc = "import"
    /\ items = <<>>
    /\ famIdx = 1
    /\ varIdx = 1
    /\ lines = <<>>
    /\ manifest_lines = <<>>
    /\ outdir = <<>>
    /\ writeLog = <<>>
    /\ total_modules = 0
    /\ run = 1
    /\ prevOut = <<>>
    /\ failure = "none"
    /\ subsetLog = <<>>
    /\ StressIdle

\* for cp in range(start, end + 1): CODEPOINTS.add(cp)
AddCodepoint ==
    /\ pc = "import"
    /\ rangeIdx <= Len(UNICODE_RANGES)
    /\ cp < RangeStop(UNICODE_RANGES[rangeIdx][2])
    /\ CODEPOINTS' = CODEPOINTS \cup {cp}
    /\ cp' = cp + 1
    /\ UNCHANGED <<rangeIdx, pipelineVars, stressVars>>

\* The inner range is exhausted: for start, end in UNICODE_RANGES takes the next.
NextRange ==
    /\ pc = "import"
    /\ rangeIdx <= Len(UNICODE_RANGES)
    /\ cp >= RangeStop(UNICODE_RANGES[rangeIdx][2])
    /\ rangeIdx' = rangeIdx + 1
    /\ cp' = IF rangeIdx < Len(UNICODE_RANGES)
             THEN UNICODE_RANGES[rangeIdx + 1][1]
             ELSE cp
    /\ UNCHANGED <<CODEPOINTS, pipelineVars, stressVars>>

NextPolicy == AddCodepoint \/ NextRange

SpecPolicy == InitPolicy /\ [][NextPolicy]_vars

(***************************************************************************)
(* main (lines 533-561)                                                    *)
(***************************************************************************)

\* module_name, family_def of the current iteration
Family == items[famIdx]

Init ==
    /\ CODEPOINTS = BuiltCodepoints
    /\ rangeIdx = Len(UNICODE_RANGES) + 1
    /\ cp = RangeStop(UNICODE_RANGES[Len(UNICODE_RANGES)][2])
    /\ FONT_FAMILIES \in Catalogs
    /\ existing \in SUBSET SourceFiles(FONT_FAMILIES)
    /\ pc = "start"
    /\ items = <<>>
    /\ famIdx = 1
    /\ varIdx = 1
    /\ lines = <<>>
    /\ manifest_lines = <<>>
    /\ outdir = <<>>
    /\ writeLog = <<>>
    /\ total_modules = 0
    /\ run = 1
    /\ prevOut = <<>>
    /\ failure = "none"
    /\ subsetLog = <<>>
    /\ StressIdle

\* A call raises: nothing in the script catches it, the exception leaves main
\* and the process ends.
Raise(call) ==
    /\ pc' = "failed"
    /\ failure' = call
    /\ UNCHANGED <<policyVars, stressVars, FONT_FAMILIES, existing, items, famIdx, varIdx, lines,
                   manifest_lines, writeLog, total_modules, run, prevOut>>

\* OUTPUT_DIR.mkdir(parents=True, exist_ok=True); total_bytes = total_modules = 0
Mkdir ==
    /\ pc = "start"
    /\ pc' = "main_loop"
    /\ items' = sorted(FONT_FAMILIES)
    /\ famIdx' = 1
    /\ total_modules' = 0
    /\ UNCHANGED <<policyVars, stressVars, FONT_FAMILIES, existing, varIdx, lines,
                   manifest_lines, outdir, writeLog, run, prevOut,
                   failure, subsetLog>>

MkdirFails ==
    /\ pc = "start"
    /\ Raise("mkdir")
    /\ UNCHANGED <<outdir, subsetLog>>

\* The loop of main takes the next family and calls generate_family_module.
EnterFamily ==
    /\ pc = "main_loop"
    /\ famIdx <= Len(items)
    /\ pc' = "emit"
    /\ varIdx' = 1
    /\ lines' = <<ModuleHeader(Family)>>
    /\ UNCHANGED <<policyVars, stressVars, FONT_FAMILIES, existing, items, famIdx, manifest_lines,
                   outdir, writeLog, total_modules, run, prevOut,
                   failure, subsetLog>>

\* The variant's file is absent and that is fatal: the run ends there.
SkipVariantFatal ==
    /\ pc = "emit"
    /\ varIdx <= Len(Family.variants)
    /\ ~Exists(Family.variants[varIdx].ttf)
    /\ Raise("missing_file")
    /\ UNCHANGED <<outdir, subsetLog>>

\* The variant's file is absent: WARN and continue.
SkipVariant ==
    /\ pc = "emit"
    /\ varIdx <= Len(Family.variants)
    /\ ~Exists(Family.variants[varIdx].ttf)
    /\ varIdx' = varIdx + 1
    /\ UNCHANGED <<policyVars, stressVars, FONT_FAMILIES, existing, items, pc, famIdx, lines,
                   manifest_lines, outdir, writeLog, total_modules, run, prevOut,
                   failure, subsetLog>>

\* The variant's file is present: subset, encode, append the export line.
EmitVariant ==
    /\ pc = "emit"
    /\ varIdx <= Len(Family.variants)
    /\ Exists(Family.variants[varIdx].ttf)
    /\ lines' = Append(lines,
                   ExportLine(Family.variants[varIdx].name,
                              b64encode(subset_to_woff2(Family.variants[varIdx].ttf))))
    /\ subsetLog' = Append(subsetLog, Family.variants[varIdx].ttf)
    /\ varIdx' = varIdx + 1
    /\ UNCHANGED <<policyVars, stressVars, FONT_FAMILIES, existing, items, pc, famIdx,
                   manifest_lines, outdir, writeLog, total_modules, run, prevOut,
                   failure>>

\* subset_to_woff2 raises and a handler around the call catches it: the variant
\* is given up and the loop goes on.
SubsetFailsCaught ==
    /\ pc = "emit"
    /\ varIdx <= Len(Family.variants)
    /\ Exists(Family.variants[varIdx].ttf)
    /\ subsetLog' = Append(subsetLog, Family.variants[varIdx].ttf)
    /\ failure' = "subset_to_woff2"
    /\ varIdx' = varIdx + 1
    /\ UNCHANGED <<policyVars, stressVars, FONT_FAMILIES, existing, items, pc, famIdx, lines,
                   manifest_lines, outdir, writeLog, total_modules, run, prevOut>>

\* subset_to_woff2 raises on the present file; nothing catches it.
SubsetFails ==
    /\ pc = "emit"
    /\ varIdx <= Len(Family.variants)
    /\ Exists(Family.variants[varIdx].ttf)
    /\ subsetLog' = Append(subsetLog, Family.variants[varIdx].ttf)
    /\ Raise("subset_to_woff2")
    /\ UNCHANGED outdir

\* generate_family_module returns; main writes the module and counts it.
WriteModule ==
    /\ pc = "emit"
    /\ varIdx > Len(Family.variants)
    /\ outdir' = WriteText(outdir, ModuleFile(Family.module_name), lines)
    /\ writeLog' = Append(writeLog, ModuleFile(Family.module_name))
    /\ total_modules' = total_modules + 1
    /\ famIdx' = famIdx + 1
    /\ pc' = "main_loop"
    /\ UNCHANGED <<policyVars, stressVars, FONT_FAMILIES, existing, items, varIdx, lines,
                   manifest_lines, run, prevOut,
                   failure, subsetLog>>

\* output_path.write_text raises and the files the run has written so far are
\* removed again.
WriteModuleFailsRollback ==
    /\ pc = "emit"
    /\ varIdx > Len(Family.variants)
    /\ outdir' = [n \in DOMAIN outdir \ {writeLog[i] : i \in 1..Len(writeLog)}
                    |-> outdir[n]]
    /\ Raise("write_module")
    /\ UNCHANGED subsetLog

\* output_path.write_text raises.
WriteModuleFails ==
    /\ pc = "emit"
    /\ varIdx > Len(Family.variants)
    /\ outdir' \in FailedWrite(outdir, ModuleFile(Family.module_name), lines)
    /\ Raise("write_module")
    /\ UNCHANGED subsetLog

\* The loop of main is exhausted; generate_manifest starts its first pass.
EnterManifest ==
    /\ pc = "main_loop"
    /\ famIdx > Len(items)
    /\ pc' = "pass1"
    /\ items' = sorted(FONT_FAMILIES)
    /\ famIdx' = 1
    /\ manifest_lines' = <<ManifestHeader>>
    /\ UNCHANGED <<policyVars, stressVars, FONT_FAMILIES, existing, varIdx, lines, outdir,
                   writeLog, total_modules, run, prevOut,
                   failure, subsetLog>>

\* One iteration of the first loop of generate_manifest (lines 478-499).
Pass1Step ==
    /\ pc = "pass1"
    /\ famIdx <= Len(items)
    /\ manifest_lines' = IF ExistingVariants(Family) = <<>>
                         THEN manifest_lines
                         ELSE Append(manifest_lines, PrimaryEntry(Family))
    /\ famIdx' = famIdx + 1
    /\ UNCHANGED <<policyVars, stressVars, FONT_FAMILIES, existing, items, pc, varIdx, lines,
                   outdir, writeLog, total_modules, run, prevOut,
                   failure, subsetLog>>

\* The first loop is exhausted; the second starts.
EnterPass2 ==
    /\ pc = "pass1"
    /\ famIdx > Len(items)
    /\ pc' = "pass2"
    /\ items' = sorted(FONT_FAMILIES)
    /\ famIdx' = 1
    /\ UNCHANGED <<policyVars, stressVars, FONT_FAMILIES, existing, varIdx, lines,
                   manifest_lines, outdir, writeLog, total_modules, run, prevOut,
                   failure, subsetLog>>

\* One iteration of the second loop of generate_manifest (lines 502-525).
Pass2Step ==
    /\ pc = "pass2"
    /\ famIdx <= Len(items)
    /\ manifest_lines' = IF EmitsAlias(Family)
                         THEN Append(manifest_lines, AliasEntry(Family))
                         ELSE manifest_lines
    /\ famIdx' = famIdx + 1
    /\ UNCHANGED <<policyVars, stressVars, FONT_FAMILIES, existing, items, pc, varIdx, lines,
                   outdir, writeLog, total_modules, run, prevOut,
                   failure, subsetLog>>

\* The second loop is exhausted: the closing lines, and generate_manifest returns.
ReturnManifest ==
    /\ pc = "pass2"
    /\ famIdx > Len(items)
    /\ manifest_lines' = Append(manifest_lines, ManifestFooter)
    /\ pc' = "write_manifest"
    /\ UNCHANGED <<policyVars, stressVars, FONT_FAMILIES, existing, items, famIdx, varIdx, lines,
                   outdir, writeLog, total_modules, run, prevOut,
                   failure, subsetLog>>

\* manifest_path.write_text(manifest_content); the summary; main returns.
WriteManifest ==
    /\ pc = "write_manifest"
    /\ outdir' = WriteText(outdir, ManifestFile, manifest_lines)
    /\ writeLog' = Append(writeLog, ManifestFile)
    /\ pc' = "done"
    /\ UNCHANGED <<policyVars, stressVars, FONT_FAMILIES, existing, items, famIdx, varIdx, lines,
                   manifest_lines, total_modules, run, prevOut,
                   failure, subsetLog>>

\* manifest_path.write_text raises.
WriteManifestFails ==
    /\ pc = "write_manifest"
    /\ outdir' \in FailedWrite(outdir, ManifestFile, manifest_lines)
    /\ Raise("write_manifest")
    /\ UNCHANGED subsetLog

\* The script is run again over the same catalog and source directory, after a
\* run that completed; OUTPUT_DIR is as that run left it.
Rerun ==
    /\ pc = "done"
    /\ run < MaxRuns
    /\ run' = run + 1
    /\ prevOut' = outdir
    /\ pc' = "start"
    /\ items' = <<>>
    /\ famIdx' = 1
    /\ varIdx' = 1
    /\ lines' = <<>>
    /\ manifest_lines' = <<>>
    /\ writeLog' = <<>>
    /\ total_modules' = 0
    /\ failure' = "none"
    /\ subsetLog' = <<>>
    /\ UNCHANGED <<policyVars, stressVars, FONT_FAMILIES, existing, outdir>>

Next ==
    \/ Mkdir
    \/ MkdirFails
    \/ EnterFamily
    \/ SkipVariant
    \/ EmitVariant
    \/ SubsetFails
    \/ WriteModule
    \/ WriteModuleFails
    \/ EnterManifest
    \/ Pass1Step
    \/ EnterPass2
    \/ Pass2Step
    \/ ReturnManifest
    \/ WriteManifest
    \/ WriteManifestFails
    \/ Rerun

Spec == Init /\ [][Next]_vars

\* A run of main in which no call raises.
NextNoFailure ==
    \/ Mkdir
    \/ EnterFamily
    \/ SkipVariant
    \/ EmitVariant
    \/ WriteModule
    \/ EnterManifest
    \/ Pass1Step
    \/ EnterPass2
    \/ Pass2Step
    \/ ReturnManifest
    \/ WriteManifest

\* The script is one sequential process: as long as a statement remains to be
\* executed and nothing raises, the interpreter executes it.
SpecNoFailure == Init /\ [][NextNoFailure]_vars /\ WF_vars(NextNoFailure)

\* FONT_FAMILIES as shipped: the 42 families, in declaration order.
ShippedCatalog ==
    <<
      Carlito,
      CalibriLight,
      Caladea,
      [module_name |-> <<"l","i","b","e","r","a","t","i","o","n","-","s","a","n","s">>,
       register_as |-> <<"L","i","b","e","r","a","t","i","o","n"," ","S","a","n","s">>,
       substitute_for |-> <<"A","r","i","a","l">>,
       variants |-> <<
            [name |-> "regular", ttf |-> "LiberationSans-Regular.ttf"],
            [name |-> "bold", ttf |-> "LiberationSans-Bold.ttf"],
            [name |-> "italic", ttf |-> "LiberationSans-Italic.ttf"],
            [name |-> "boldItalic", ttf |-> "LiberationSans-BoldItalic.ttf"] >>],
      [module_name |-> <<"l","i","b","e","r","a","t","i","o","n","-","s","e","r","i","f">>,
       register_as |-> <<"L","i","b","e","r","a","t","i","o","n"," ","S","e","r","i","f">>,
       substitute_for |-> <<"T","i","m","e","s"," ","N","e","w"," ","R","o","m","a","n">>,
       variants |-> <<
            [name |-> "regular", ttf |-> "LiberationSerif-Regular.ttf"],
            [name |-> "bold", ttf |-> "LiberationSerif-Bold.ttf"],
            [name |-> "italic", ttf |-> "LiberationSerif-Italic.ttf"],
            [name |-> "boldItalic", ttf |-> "LiberationSerif-BoldItalic.ttf"] >>],
      [module_name |-> <<"l","i","b","e","r","a","t","i","o","n","-","m","o","n","o">>,
       register_as |-> <<"L","i","b","e","r","a","t","i","o","n"," ","M","o","n","o">>,
       substitute_for |-> <<"C","o","u","r","i","e","r"," ","N","e","w">>,
       variants |-> <<
            [name |-> "regular", ttf |-> "LiberationMono-Regular.ttf"],
            [name |-> "bold", ttf |-> "LiberationMono-Bold.ttf"],
            [name |-> "italic", ttf |-> "LiberationMono-Italic.ttf"],
            [name |-> "boldItalic", ttf |-> "LiberationMono-BoldItalic.ttf"] >>],
      Selawik,
      [module_name |-> <<"s","e","l","a","w","i","k","-","l","i","g","h","t">>,
       register_as |-> <<"S","e","l","a","w","i","k"," ","L","i","g","h","t">>,
       substitute_for |-> <<"S","e","g","o","e"," ","U","I"," ","L","i","g","h","t">>,
       variants |-> <<
            [name |-> "regular", ttf |-> "Selawik-Light.ttf"] >>],
      [module_name |-> <<"s","e","l","a","w","i","k","-","s","e","m","i","b","o","l","d">>,
       register_as |-> <<"S","e","l","a","w","i","k"," ","S","e","m","i","b","o","l","d">>,
       substitute_for |-> <<"S","e","g","o","e"," ","U","I"," ","S","e","m","i","b","o","l","d">>,
       variants |-> <<
            [name |-> "regular", ttf |-> "Selawik-Semibold.ttf"] >>],
      [module_name |-> <<"s","e","l","a","w","i","k","-","s","e","m","i","l","i","g","h","t">>,
       register_as |-> <<"S","e","l","a","w","i","k"," ","S","e","m","i","l","i","g","h","t">>,
       substitute_for |-> <<"S","e","g","o","e"," ","U","I"," ","S","e","m","i","l","i","g","h","t">>,
       variants |-> <<
            [name |-> "regular", ttf |-> "Selawik-Semilight.ttf"] >>],
      [module_name |-> <<"g","e","l","a","s","i","o">>,
       register_as |-> <<"G","e","l","a","s","i","o">>,
       substitute_for |-> <<"G","e","o","r","g","i","a">>,
       variants |-> <<
            [name |-> "regular", ttf |-> "Gelasio-Regular.ttf"],
            [name |-> "bold", ttf |-> "Gelasio-Bold.ttf"],
            [name |-> "italic", ttf |-> "Gelasio-Italic.ttf"],
            [name |-> "boldItalic", ttf |-> "Gelasio-BoldItalic.ttf"] >>],
      [module_name |-> <<"l","i","b","e","r","a","t","i","o","n","-","s","a","n","s","-","n","a","r","r","o","w">>,
       register_as |-> <<"L","i","b","e","r","a","t","i","o","n"," ","S","a","n","s"," ","N","a","r","r","o","w">>,
       substitute_for |-> <<"A","r","i","a","l"," ","N","a","r","r","o","w">>,
       variants |-> <<
            [name |-> "regular", ttf |-> "LiberationSansNarrow-Regular.ttf"],
            [name |-> "bold", ttf |-> "LiberationSansNarrow-Bold.ttf"],
            [name |-> "italic", ttf |-> "LiberationSansNarrow-Italic.ttf"],
            [name |-> "boldItalic", ttf |-> "LiberationSansNarrow-BoldItalic.ttf"] >>],
      [module_name |-> <<"t","e","x","-","g","y","r","e","-","p","a","g","e","l","l","a">>,
       register_as |-> <<"T","e","X"," ","G","y","r","e"," ","P","a","g","e","l","l","a">>,
       substitute_for |-> <<"P","a","l","a","t","i","n","o"," ","L","i","n","o","t","y","p","e">>,
       variants |-> <<
            [name |-> "regular", ttf |-> "texgyrepagella-regular.otf"],
            [name |-> "bold", ttf |-> "texgyrepagella-bold.otf"],
            [name |-> "italic", ttf |-> "texgyrepagella-italic.otf"],
            [name |-> "boldItalic", ttf |-> "texgyrepagella-bolditalic.otf"] >>],
      [module_name |-> <<"t","e","x","-","g","y","r","e","-","b","o","n","u","m">>,
       register_as |-> <<"T","e","X"," ","G","y","r","e"," ","B","o","n","u","m">>,
       substitute_for |-> <<"B","o","o","k","m","a","n"," ","O","l","d"," ","S","t","y","l","e">>,
       variants |-> <<
            [name |-> "regular", ttf |-> "texgyrebonum-regular.otf"],
            [name |-> "bold", ttf |-> "texgyrebonum-bold.otf"],
            [name |-> "italic", ttf |-> "texgyrebonum-italic.otf"],
            [name |-> "boldItalic", ttf |-> "texgyrebonum-bolditalic.otf"] >>],
      [module_name |-> <<"t","e","x","-","g","y","r","e","-","s","c","h","o","l","a">>,
       register_as |-> <<"T","e","X"," ","G","y","r","e"," ","S","c","h","o","l","a">>,
       substitute_for |-> <<"C","e","n","t","u","r","y"," ","S","c","h","o","o","l","b","o","o","k">>,
       variants |-> <<
            [name |-> "regular", ttf |-> "texgyreschola-regular.otf"],
            [name |-> "bold", ttf |-> "texgyreschola-bold.otf"],
            [name |-> "italic", ttf |-> "texgyreschola-italic.otf"],
            [name |-> "boldItalic", ttf |-> "texgyreschola-bolditalic.otf"] >>],
      [module_name |-> <<"a","r","i","m","o">>,
       register_as |-> <<"A","r","i","m","o">>,
       substitute_for |-> <<>>,
       variants |-> <<
            [name |-> "regular", ttf |-> "Arimo-Regular.ttf"],
            [name |-> "bold", ttf |-> "Arimo-Bold.ttf"],
            [name |-> "italic", ttf |-> "Arimo-Italic.ttf"],
            [name |-> "boldItalic", ttf |-> "Arimo-BoldItalic.ttf"] >>],
      [module_name |-> <<"b","a","r","l","o","w">>,
       register_as |-> <<"B","a","r","l","o","w">>,
       substitute_for |-> <<>>,
       variants |-> <<
            [name |-> "regular", ttf |-> "Barlow-Regular.ttf"],
            [name |-> "bold", ttf |-> "Barlow-Bold.ttf"],
            [name |-> "italic", ttf |-> "Barlow-Italic.ttf"],
            [name |-> "boldItalic", ttf |-> "Barlow-BoldItalic.ttf"] >>],
      [module_name |-> <<"b","a","r","l","o","w","-","l","i","g","h","t">>,
       register_as |-> <<"B","a","r","l","o","w"," ","L","i","g","h","t">>,
       substitute_for |-> <<>>,
       variants |-> <<
            [name |-> "regular", ttf |-> "Barlow-Light.ttf"],
            [name |-> "italic", ttf |-> "Barlow-LightItalic.ttf"] >>],
      [module_name |-> <<"c","o","m","f","o","r","t","a","a">>,
       register_as |-> <<"C","o","m","f","o","r","t","a","a">>,
       substitute_for |-> <<>>,
       variants |-> <<
            [name |-> "regular", ttf |-> "Comfortaa-Regular.ttf"],
            [name |-> "bold", ttf |-> "Comfortaa-Bold.ttf"] >>],
      [module_name |-> <<"c","o","u","r","i","e","r","-","p","r","i","m","e">>,
       register_as |-> <<"C","o","u","r","i","e","r"," ","P","r","i","m","e">>,
       substitute_for |-> <<>>,
       variants |-> <<
            [name |-> "regular", ttf |-> "CourierPrime-Regular.ttf"],
            [name |-> "bold", ttf |-> "CourierPrime-Bold.ttf"],
            [name |-> "italic", ttf |-> "CourierPrime-Italic.ttf"],
            [name |-> "boldItalic", ttf |-> "CourierPrime-BoldItalic.ttf"] >>],
      [module_name |-> <<"f","i","r","a","-","c","o","d","e">>,
       register_as |-> <<"F","i","r","a"," ","C","o","d","e">>,
       substitute_for |-> <<>>,
       variants |-> <<
            [name |-> "regular", ttf |-> "FiraCode-Regular.ttf"],
            [name |-> "bold", ttf |-> "FiraCode-Bold.ttf"] >>],
      [module_name |-> <<"l","a","t","o">>,
       register_as |-> <<"L","a","t","o">>,
       substitute_for |-> <<>>,
       variants |-> <<
            [name |-> "regular", ttf |-> "Lato-Regular.ttf"],
            [name |-> "bold", ttf |-> "Lato-Bold.ttf"],
            [name |-> "italic", ttf |-> "Lato-Italic.ttf"],
            [name |-> "boldItalic", ttf |-> "Lato-BoldItalic.ttf"] >>],
      [module_name |-> <<"l","a","t","o","-","l","i","g","h","t">>,
       register_as |-> <<"L","a","t","o"," ","L","i","g","h","t">>,
       substitute_for |-> <<>>,
       variants |-> <<
            [name |-> "regular", ttf |-> "Lato-Light.ttf"],
            [name |-> "italic", ttf |-> "Lato-LightItalic.ttf"] >>],
      [module_name |-> <<"m","o","n","t","s","e","r","r","a","t">>,
       register_as |-> <<"M","o","n","t","s","e","r","r","a","t">>,
       substitute_for |-> <<>>,
       variants |-> <<
            [name |-> "regular", ttf |-> "Montserrat-Regular.ttf"],
            [name |-> "bold", ttf |-> "Montserrat-Bold.ttf"],
            [name |-> "italic", ttf |-> "Montserrat-Italic.ttf"],
            [name |-> "boldItalic", ttf |-> "Montserrat-BoldItalic.ttf"] >>],
      [module_name |-> <<"n","o","t","o","-","s","a","n","s">>,
       register_as |-> <<"N","o","t","o"," ","S","a","n","s">>,
       substitute_for |-> <<>>,
       variants |-> <<
            [name |-> "regular", ttf |-> "NotoSans-Regular.ttf"],
            [name |-> "bold", ttf |-> "NotoSans-Bold.ttf"],
            [name |-> "italic", ttf |-> "NotoSans-Italic.ttf"],
            [name |-> "boldItalic", ttf |-> "NotoSans-BoldItalic.ttf"] >>],
      [module_name |-> <<"n","o","t","o","-","s","a","n","s","-","s","y","m","b","o","l","s">>,
       register_as |-> <<"N","o","t","o"," ","S","a","n","s"," ","S","y","m","b","o","l","s">>,
       substitute_for |-> <<>>,
       variants |-> <<
            [name |-> "regular", ttf |-> "NotoSansSymbols-Regular.ttf"],
            [name |-> "bold", ttf |-> "NotoSansSymbols-Bold.ttf"] >>],
      [module_name |-> <<"n","o","t","o","-","s","e","r","i","f">>,
       register_as |-> <<"N","o","t","o"," ","S","e","r","i","f">>,
       substitute_for |-> <<>>,
       variants |-> <<
            [name |-> "regular", ttf |-> "NotoSerif-Regular.ttf"],
            [name |-> "bold", ttf |-> "NotoSerif-Bold.ttf"],
            [name |-> "italic", ttf |-> "NotoSerif-Italic.ttf"],
            [name |-> "boldItalic", ttf |-> "NotoSerif-BoldItalic.ttf"] >>],
      [module_name |-> <<"o","p","e","n","-","s","a","n","s">>,
       register_as |-> <<"O","p","e","n"," ","S","a","n","s">>,
       substitute_for |-> <<>>,
       variants |-> <<
            [name |-> "regular", ttf |-> "OpenSans-Regular.ttf"],
            [name |-> "bold", ttf |-> "OpenSans-Bold.ttf"] >>],
      [module_name |-> <<"o","s","w","a","l","d">>,
       register_as |-> <<"O","s","w","a","l","d">>,
       substitute_for |-> <<>>,
       variants |-> <<
            [name |-> "regular", ttf |-> "Oswald-Regular.ttf"],
            [name |-> "bold", ttf |-> "Oswald-Bold.ttf"] >>],
      [module_name |-> <<"p","l","a","y">>,
       register_as |-> <<"P","l","a","y">>,
       substitute_for |-> <<>>,
       variants |-> <<
            [name |-> "regular", ttf |-> "Play-Regular.ttf"],
            [name |-> "bold", ttf |-> "Play-Bold.ttf"] >>],
      [module_name |-> <<"p","l","a","y","f","a","i","r","-","d","i","s","p","l","a","y">>,
       register_as |-> <<"P","l","a","y","f","a","i","r"," ","D","i","s","p","l","a","y">>,
       substitute_for |-> <<>>,
       variants |-> <<
            [name |-> "regular", ttf |-> "PlayfairDisplay-Regular.ttf"],
            [name |-> "bold", ttf |-> "PlayfairDisplay-Bold.ttf"],
            [name |-> "italic", ttf |-> "PlayfairDisplay-Italic.ttf"],
            [name |-> "boldItalic", ttf |-> "PlayfairDisplay-BoldItalic.ttf"] >>],
      [module_name |-> <<"p","o","p","p","i","n","s">>,
       register_as |-> <<"P","o","p","p","i","n","s">>,
       substitute_for |-> <<>>,
       variants |-> <<
            [name |-> "regular", ttf |-> "Poppins-Regular.ttf"],
            [name |-> "bold", ttf |-> "Poppins-Bold.ttf"],
            [name |-> "italic", ttf |-> "Poppins-Italic.ttf"],
            [name |-> "boldItalic", ttf |-> "Poppins-BoldItalic.ttf"] >>],
      [module_name |-> <<"r","a","l","e","w","a","y">>,
       register_as |-> <<"R","a","l","e","w","a","y">>,
       substitute_for |-> <<>>,
       variants |-> <<
            [name |-> "regular", ttf |-> "Raleway-Regular.ttf"],
            [name |-> "bold", ttf |-> "Raleway-Bold.ttf"],
            [name |-> "italic", ttf |-> "Raleway-Italic.ttf"],
            [name |-> "boldItalic", ttf |-> "Raleway-BoldItalic.ttf"] >>],
      [module_name |-> <<"r","o","b","o","t","o">>,
       register_as |-> <<"R","o","b","o","t","o">>,
       substitute_for |-> <<>>,
       variants |-> <<
            [name |-> "regular", ttf |-> "Roboto-Regular.ttf"],
            [name |-> "bold", ttf |-> "Roboto-Bold.ttf"],
            [name |-> "italic", ttf |-> "Roboto-Italic.ttf"],
            [name |-> "boldItalic", ttf |-> "Roboto-BoldItalic.ttf"] >>],
      [module_name |-> <<"r","o","b","o","t","o","-","m","o","n","o">>,
       register_as |-> <<"R","o","b","o","t","o"," ","M","o","n","o">>,
       substitute_for |-> <<>>,
       variants |-> <<
            [name |-> "regular", ttf |-> "RobotoMono-Regular.ttf"],
            [name |-> "bold", ttf |-> "RobotoMono-Bold.ttf"],
            [name |-> "italic", ttf |-> "RobotoMono-Italic.ttf"],
            [name |-> "boldItalic", ttf |-> "RobotoMono-BoldItalic.ttf"] >>],
      RobotoSlab,
      RobotoSlabLight,
      [module_name |-> <<"r","o","b","o","t","o","-","s","l","a","b","-","s","e","m","i","b","o","l","d">>,
       register_as |-> <<"R","o","b","o","t","o"," ","S","l","a","b"," ","S","e","m","i","B","o","l","d">>,
       substitute_for |-> <<>>,
       variants |-> <<
            [name |-> "regular", ttf |-> "RobotoSlab-SemiBold.ttf"] >>],
      [module_name |-> <<"s","o","u","r","c","e","-","c","o","d","e","-","p","r","o">>,
       register_as |-> <<"S","o","u","r","c","e"," ","C","o","d","e"," ","P","r","o">>,
       substitute_for |-> <<>>,
       variants |-> <<
            [name |-> "regular", ttf |-> "SourceCodePro-Regular.ttf"],
            [name |-> "bold", ttf |-> "SourceCodePro-Bold.ttf"],
            [name |-> "italic", ttf |-> "SourceCodePro-Italic.ttf"],
            [name |-> "boldItalic", ttf |-> "SourceCodePro-BoldItalic.ttf"] >>],
      [module_name |-> <<"s","o","u","r","c","e","-","s","a","n","s","-","p","r","o">>,
       register_as |-> <<"S","o","u","r","c","e"," ","S","a","n","s"," ","P","r","o">>,
       substitute_for |-> <<>>,
       variants |-> <<
            [name |-> "regular", ttf |-> "SourceSans3-Regular.ttf"],
            [name |-> "bold", ttf |-> "SourceSans3-Bold.ttf"],
            [name |-> "italic", ttf |-> "SourceSans3-Italic.ttf"],
            [name |-> "boldItalic", ttf |-> "SourceSans3-BoldItalic.ttf"] >>],
      [module_name |-> <<"t","i","n","o","s">>,
       register_as |-> <<"T","i","n","o","s">>,
       substitute_for |-> <<>>,
       variants |-> <<
            [name |-> "regular", ttf |-> "Tinos-Regular.ttf"],
            [name |-> "bold", ttf |-> "Tinos-Bold.ttf"],
            [name |-> "italic", ttf |-> "Tinos-Italic.ttf"],
            [name |-> "boldItalic", ttf |-> "Tinos-BoldItalic.ttf"] >>],
      [module_name |-> <<"u","b","u","n","t","u">>,
       register_as |-> <<"U","b","u","n","t","u">>,
       substitute_for |-> <<>>,
       variants |-> <<
            [name |-> "regular", ttf |-> "Ubuntu-Regular.ttf"],
            [name |-> "bold", ttf |-> "Ubuntu-Bold.ttf"],
            [name |-> "italic", ttf |-> "Ubuntu-Italic.ttf"],
            [name |-> "boldItalic", ttf |-> "Ubuntu-BoldItalic.ttf"] >>] >>

\* Source directories main is run over with the shipped catalog: every file
\* present, the files of one family absent, no file present.
ShippedPatterns ==
    LET all == SourceFiles(ShippedCatalog)
        of(i) == SourceFiles(<<ShippedCatalog[i]>>)
    IN  {all, {}} \cup {all \ of(i) : i \in 1..Len(ShippedCatalog)}

\* main, on entry, with the catalog as shipped.
InitShipped ==
    /\ CODEPOINTS = BuiltCodepoints
    /\ rangeIdx = Len(UNICODE_RANGES) + 1
    /\ cp = RangeStop(UNICODE_RANGES[Len(UNICODE_RANGES)][2])
    /\ FONT_FAMILIES = ShippedCatalog
    /\ existing \in ShippedPatterns
    /\ pc = "start"
    /\ items = <<>>
    /\ famIdx = 1
    /\ varIdx = 1
    /\ lines = <<>>
    /\ manifest_lines = <<>>
    /\ outdir = <<>>
    /\ writeLog = <<>>
    /\ total_modules = 0
    /\ run = 1
    /\ prevOut = <<>>
    /\ failure = "none"
    /\ subsetLog = <<>>
    /\ StressIdle

\* One run of main over the shipped catalog in which no call raises.
SpecShipped == InitShipped /\ [][NextNoFailure]_vars

(***************************************************************************)
(* scripts/generate-font-stress-test.py                                    *)
(*                                                                         *)
(* The deck is a list of slides, a slide the list of its text runs, a run  *)
(* the font name it is set in and what it shows.  Lengths are kept in      *)
(* units of 1/PerInch inch: every length the script adds (hundredths of an *)
(* inch, and size / 72 * 1.4 or size / 72 * 1.6 for the sizes it uses) is  *)
(* then a whole number.  The one comparison whose exact operands are equal *)
(* (y_pos > 7.2 before the 36pt sample of the third font of the size       *)
(* slide) is false in binary floating point as well.                       *)
(***************************************************************************)

PerInch == 1800

\* h / 100 inches
Hundredths(h) == h * (PerInch \div 100)

\* size / 72 * (tenths / 10) inches
PointsTimes(size, tenths) == (size * tenths * PerInch) \div 720

Max(a, b) == IF a >= b THEN a ELSE b

\* list[:n] and list[n:]
Take(list, n) == SubSeq(list, 1, IF n < Len(list) THEN n ELSE Len(list))
Drop(list, n) == SubSeq(list, n + 1, Len(list))

\* OFFICE_SUBSTITUTES: the family names (the descriptions only appear in label text).
OFFICE_SUBSTITUTES ==
    <<"Calibri", "Calibri Light", "Cambria", "Arial", "Arial Narrow",
      "Times New Roman", "Courier New", "Segoe UI", "Segoe UI Light",
      "Segoe UI Semibold", "Segoe UI Semilight", "Georgia",
      "Palatino Linotype", "Bookman Old Style", "Century Schoolbook">>

\* GOOGLE_FONTS_SANS: the family names (the descriptions only appear in label text).
GOOGLE_FONTS_SANS ==
    <<"Arimo", "Barlow", "Barlow Light", "Comfortaa", "Lato", "Lato Light",
      "Montserrat", "Noto Sans", "Open Sans", "Oswald", "Poppins",
      "Raleway", "Roboto", "Source Sans Pro", "Ubuntu", "Play">>

\* GOOGLE_FONTS_SERIF: the family names (the descriptions only appear in label text).
GOOGLE_FONTS_SERIF ==
    <<"Noto Serif", "Playfair Display", "Roboto Slab", "Roboto Slab Light",
      "Roboto Slab SemiBold", "Tinos">>

\* GOOGLE_FONTS_MONO: the family names (the descriptions only appear in label text).
GOOGLE_FONTS_MONO ==
    <<"Courier Prime", "Fira Code", "Roboto Mono", "Source Code Pro">>

\* GOOGLE_FONTS_SYMBOL: the family names (the descriptions only appear in label text).
GOOGLE_FONTS_SYMBOL ==
    <<"Noto Sans Symbols">>

\* The fonts arguments of the six add_font_showcase_slide calls of main.
ShowcaseCalls ==
    <<Take(OFFICE_SUBSTITUTES, 8), Drop(OFFICE_SUBSTITUTES, 8),
      Take(GOOGLE_FONTS_SANS, 8), Drop(GOOGLE_FONTS_SANS, 8),
      GOOGLE_FONTS_SERIF,
      GOOGLE_FONTS_MONO \o GOOGLE_FONTS_SYMBOL>>

\* The fonts argument of the add_size_comparison_slide call, and sizes.
SizeFonts == <<"Calibri", "Arial", "Times New Roman", "Roboto", "Montserrat">>
sizes == <<10, 14, 20, 28, 36>>

key_fonts ==
    <<"Calibri", "Arial", "Times New Roman", "Courier New", "Georgia",
      "Segoe UI", "Roboto", "Montserrat", "Playfair Display", "Fira Code",
      "Noto Sans Symbols">>

\* The lines of add_full_alphabet_slide: the size, and whether the text ends
\* with "pt" (a caption, set in Calibri).
AlphabetLines ==
    <<[size |-> 24, pt |-> TRUE], [size |-> 24, pt |-> FALSE],
      [size |-> 24, pt |-> FALSE], [size |-> 20, pt |-> FALSE],
      [size |-> 8, pt |-> FALSE],
      [size |-> 20, pt |-> TRUE], [size |-> 20, pt |-> FALSE],
      [size |-> 8, pt |-> FALSE],
      [size |-> 20, pt |-> TRUE], [size |-> 20, pt |-> FALSE],
      [size |-> 8, pt |-> FALSE],
      [size |-> 18, pt |-> TRUE], [size |-> 18, pt |-> FALSE],
      [size |-> 8, pt |-> FALSE],
      [size |-> 10, pt |-> TRUE], [size |-> 10, pt |-> FALSE]>>

\* run = p.add_run(); run.text = ...; run.font.name = font_name
Run(shows, font_name) == [shows |-> shows, font |-> font_name]

\* The fonts of the runs of add_mixed_paragraph_slide, in order: the title,
\* pairs, code_pairs, sym_pairs, heading_fonts.
MixedFonts ==
    <<"Calibri",
      "Calibri", "Calibri", "Calibri", "Calibri", "Calibri", "Courier New",
      "Calibri",
      "Segoe UI", "Fira Code", "Segoe UI", "Source Code Pro", "Segoe UI",
      "Roboto Mono", "Segoe UI",
      "Noto Sans", "Noto Sans Symbols", "Noto Sans", "Noto Sans Symbols",
      "Noto Sans",
      "Montserrat", "Raleway", "Poppins", "Roboto", "Lato Light">>

\* prs.slides.add_slide(...) followed by the first runs of the slide
AddSlide(deck, runs) == Append(deck, runs)

\* Runs added to the slide being built, the last of the deck.
AddRuns(deck, runs) == [deck EXCEPT ![Len(deck)] = @ \o runs]

\* y_pos = 0.6; line_height = 0.42; the loop stops once y_pos > 7.0
ShowcaseTop == Hundredths(60)
line_height == Hundredths(42)
FamilyGap == Hundredths(8)
ShowcaseLimit == Hundredths(700)

\* The limit of add_size_comparison_slide and add_full_alphabet_slide: 7.2
LowerLimit == Hundredths(720)

\* The module is run as a script; bundle-woff2-fonts.py is not involved.
InitStress ==
    /\ CODEPOINTS = {}
    /\ rangeIdx = 1
    /\ cp = UNICODE_RANGES[1][1]
    /\ FONT_FAMILIES = Scenario
    /\ existing = {}
    /\ pc = "idle"
    /\ items = <<>>
    /\ famIdx = 1
    /\ varIdx = 1
    /\ lines = <<>>
    /\ manifest_lines = <<>>
    /\ outdir = <<>>
    /\ writeLog = <<>>
    /\ total_modules = 0
    /\ run = 1
    /\ prevOut = <<>>
    /\ failure = "none"
    /\ subsetLog = <<>>
    /\ prs = <<>>
    /\ at = "title"
    /\ callIdx = 1
    /\ fonts = <<>>
    /\ fontIdx = 1
    /\ lineIdx = 1
    /\ y_pos = 0

\* prs = Presentation(); add_title_slide(prs, ...)
AddTitleSlide ==
    /\ at = "title"
    /\ prs' = AddSlide(prs, <<Run("title", "Calibri"), Run("subtitle", "Calibri")>>)
    /\ at' = "showcase"
    /\ callIdx' = 1
    /\ UNCHANGED <<policyVars, pipelineVars, fonts, fontIdx, lineIdx, y_pos>>

\* add_font_showcase_slide is called: the slide, its header, y_pos = 0.6.
BeginShowcase ==
    /\ at = "showcase"
    /\ callIdx <= Len(ShowcaseCalls)
    /\ prs' = AddSlide(prs, <<Run("header", "Calibri")>>)
    /\ fonts' = ShowcaseCalls[callIdx]
    /\ fontIdx' = 1
    /\ y_pos' = ShowcaseTop
    /\ at' = "showcase_loop"
    /\ UNCHANGED <<policyVars, pipelineVars, callIdx, lineIdx>>

\* One iteration of the loop of add_font_showcase_slide that does not break.
ShowcaseFamily ==
    /\ at = "showcase_loop"
    /\ fontIdx <= Len(fonts)
    /\ ~(y_pos > ShowcaseLimit)
    /\ prs' = AddRuns(prs, <<Run("label", "Calibri"),
                             Run("sample", fonts[fontIdx]),
                             Run("bold", fonts[fontIdx]),
                             Run("italic", fonts[fontIdx]),
                             Run("bold italic", fonts[fontIdx])>>)
    /\ y_pos' = (y_pos + line_height) + (line_height + FamilyGap)
    /\ fontIdx' = fontIdx + 1
    /\ UNCHANGED <<policyVars, pipelineVars, at, callIdx, fonts, lineIdx>>

\* The loop is exhausted, or y_pos > 7.0 and it breaks: return slide.
ShowcaseReturn ==
    /\ at = "showcase_loop"
    /\ (fontIdx > Len(fonts) \/ y_pos > ShowcaseLimit)
    /\ callIdx' = callIdx + 1
    /\ at' = "showcase"
    /\ UNCHANGED <<policyVars, pipelineVars, prs, fonts, fontIdx, lineIdx, y_pos>>

\* add_size_comparison_slide is called: the slide, its title, y_pos = 0.6.
BeginSizes ==
    /\ at = "showcase"
    /\ callIdx > Len(ShowcaseCalls)
    /\ prs' = AddSlide(prs, <<Run("header", "Calibri")>>)
    /\ fonts' = Take(SizeFonts, 5)
    /\ fontIdx' = 1
    /\ lineIdx' = 1
    /\ y_pos' = Hundredths(60)
    /\ at' = "sizes"
    /\ UNCHANGED <<policyVars, pipelineVars, callIdx>>

\* One iteration of the inner loop of add_size_comparison_slide.
SizeSample ==
    /\ at = "sizes"
    /\ fontIdx <= Len(fonts)
    /\ lineIdx <= Len(sizes)
    /\ ~(y_pos > LowerLimit)
    /\ prs' = AddRuns(prs, <<Run("label", "Calibri"),
                             Run("sample", fonts[fontIdx])>>)
    /\ y_pos' = y_pos + Max(Hundredths(35), PointsTimes(sizes[lineIdx], 14))
    /\ lineIdx' = lineIdx + 1
    /\ UNCHANGED <<policyVars, pipelineVars, at, callIdx, fonts, fontIdx>>

\* The inner loop is exhausted or breaks: y_pos += 0.15, the next font.
SizeNextFont ==
    /\ at = "sizes"
    /\ fontIdx <= Len(fonts)
    /\ (lineIdx > Len(sizes) \/ y_pos > LowerLimit)
    /\ y_pos' = y_pos + Hundredths(15)
    /\ fontIdx' = fontIdx + 1
    /\ lineIdx' = 1
    /\ UNCHANGED <<policyVars, pipelineVars, prs, at, callIdx, fonts>>

\* add_size_comparison_slide returns; add_mixed_paragraph_slide(prs).
AddMixedParagraphSlide ==
    /\ at = "sizes"
    /\ fontIdx > Len(fonts)
    /\ prs' = AddSlide(prs, [i \in 1..Len(MixedFonts) |-> Run("mixed", MixedFonts[i])])
    /\ at' = "alphabet"
    /\ callIdx' = 1
    /\ UNCHANGED <<policyVars, pipelineVars, fonts, fontIdx, lineIdx, y_pos>>

\* add_full_alphabet_slide is called for the next key font: the slide, its
\* title, y = 0.55.
BeginAlphabet ==
    /\ at = "alphabet"
    /\ callIdx <= Len(key_fonts)
    /\ prs' = AddSlide(prs, <<Run("header", "Calibri")>>)
    /\ fonts' = <<key_fonts[callIdx]>>
    /\ fontIdx' = 1
    /\ lineIdx' = 1
    /\ y_pos' = Hundredths(55)
    /\ at' = "alphabet_loop"
    /\ UNCHANGED <<policyVars, pipelineVars, callIdx>>

\* One iteration of the loop of add_full_alphabet_slide that does not break.
AlphabetLine ==
    /\ at = "alphabet_loop"
    /\ lineIdx <= Len(AlphabetLines)
    /\ ~(y_pos > LowerLimit)
    /\ LET line == AlphabetLines[lineIdx]
           h == IF line.pt THEN Hundredths(20)
                ELSE Max(Hundredths(30), PointsTimes(line.size, 16))
       IN  /\ prs' = AddRuns(prs, <<Run("line", IF line.pt THEN "Calibri"
                                                ELSE fonts[fontIdx])>>)
           /\ y_pos' = y_pos + h
    /\ lineIdx' = lineIdx + 1
    /\ UNCHANGED <<policyVars, pipelineVars, at, callIdx, fonts, fontIdx>>

\* The loop is exhausted, or y > 7.2 and it breaks: return slide.
AlphabetReturn ==
    /\ at = "alphabet_loop"
    /\ (lineIdx > Len(AlphabetLines) \/ y_pos > LowerLimit)
    /\ callIdx' = callIdx + 1
    /\ at' = "alphabet"
    /\ UNCHANGED <<policyVars, pipelineVars, prs, fonts, fontIdx, lineIdx, y_pos>>

\* prs.save(...), the summary.
Save ==
    /\ at = "alphabet"
    /\ callIdx > Len(key_fonts)
    /\ at' = "saved"
    /\ UNCHANGED <<policyVars, pipelineVars, prs, callIdx, fonts, fontIdx, lineIdx, y_pos>>

NextStress ==
    \/ AddTitleSlide
    \/ BeginShowcase
    \/ ShowcaseFamily
    \/ ShowcaseReturn
    \/ BeginSizes
    \/ SizeSample
    \/ SizeNextFont
    \/ AddMixedParagraphSlide
    \/ BeginAlphabet
    \/ AlphabetLine
    \/ AlphabetReturn
    \/ Save

SpecStress == InitStress /\ [][NextStress]_vars

(***************************************************************************)
(* Notions the properties below are stated with                            *)
(***************************************************************************)

\* The families of the catalog.
Families == {FONT_FAMILIES[i] : i \in 1..Len(FONT_FAMILIES)}

\* The family has at least one variant whose source file exists.
HasAvailable(f) == \E j \in 1..Len(f.variants) : f.variants[j].ttf \in existing

\* The declared variant tags whose source file exists, in declaration order.
AvailableTags(f) ==
    LET present == SelectSeq(f.variants, LAMBDA v : v.ttf \in existing)
    IN  [j \in 1..Len(present) |-> present[j].name]

\* The family declares a substitute_for whose lowercase form is not that of
\* its register_as.
HasDistinctSubstitute(f) ==
    /\ f.substitute_for # <<>>
    /\ lower(f.substitute_for) # lower(f.register_as)

\* The entries of the manifest file as written.
Manifest == Entries(outdir[ManifestFile])

\* The positions of the manifest entries that refer to the module of family f.
EntriesOf(f) ==
    {k \in 1..Len(Manifest) : Manifest[k].module = ModuleRef(f.module_name)}

\* The number of entries pass 1 emits: one per family with an available variant.
PrimaryCount == Cardinality({f \in Families : HasAvailable(f)})

(***************************************************************************)
(* Properties                                                              *)
(***************************************************************************)

\* C1: when a run has completed, every family that declares a substitute_for
\* differing from register_as in lowercase and has an available variant has
\* exactly two manifest entries, one keyed by lowercase register_as and one
\* keyed by lowercase substitute_for, with the same module reference and the
\* same variants list.
PrimaryAndAliasEntries ==
    pc = "done" =>
        \A f \in Families :
            (HasDistinctSubstitute(f) /\ HasAvailable(f)) =>
                \E p, a \in EntriesOf(f) :
                    /\ p # a
                    /\ EntriesOf(f) = {p, a}
                    /\ Manifest[p].key = lower(f.register_as)
                    /\ Manifest[a].key = lower(f.substitute_for)
                    /\ Manifest[p].module = Manifest[a].module
                    /\ Manifest[p].variants = Manifest[a].variants

\* C1 witness: a completed run over a family with a distinct substitute_for of
\* which some but not all source files exist, with both its entries written.
PrimaryAndAliasReached ==
    /\ pc = "done"
    /\ \E f \in Families :
        /\ HasDistinctSubstitute(f)
        /\ HasAvailable(f)
        /\ Len(AvailableTags(f)) < Len(f.variants)
        /\ Cardinality(EntriesOf(f)) = 2

\* C2: for the carlito entry declared with regular and bold, both files present,
\* the manifest maps "carlito" and "calibri" to the two records of the scenario,
\* each with the module reference "./carlito".
ScenarioEntries ==
    (pc = "done" /\ FONT_FAMILIES = Scenario
        /\ existing = {"Carlito-Regular.ttf", "Carlito-Bold.ttf"}) =>
        /\ Len(Manifest) = 2
        /\ \E k \in 1..Len(Manifest) :
            /\ Manifest[k].key = <<"c","a","r","l","i","t","o">>
            /\ Manifest[k].module = <<".","/","c","a","r","l","i","t","o">>
            /\ Manifest[k].registerAs = <<"C","a","r","l","i","t","o">>
            /\ Manifest[k].substituteFor = <<"C","a","l","i","b","r","i">>
            /\ Manifest[k].variants = <<"regular", "bold">>
        /\ \E k \in 1..Len(Manifest) :
            /\ Manifest[k].key = <<"c","a","l","i","b","r","i">>
            /\ Manifest[k].module = <<".","/","c","a","r","l","i","t","o">>
            /\ Manifest[k].registerAs = <<"C","a","l","i","b","r","i">>
            /\ Manifest[k].substituteFor = <<"C","a","l","i","b","r","i">>
            /\ Manifest[k].variants = <<"regular", "bold">>

\* C3: every entry emitted by pass 2 carries, as registerAs and as
\* substituteFor, the substitute_for of the family whose primary entry has the
\* same module, never that family's register_as, and that primary entry's
\* variants.
AliasCarriesLegacyName ==
    pc = "done" =>
        \A a \in (PrimaryCount + 1)..Len(Manifest) :
            \E f \in Families, p \in 1..PrimaryCount :
                /\ Manifest[p].key = lower(f.register_as)
                /\ Manifest[p].registerAs = f.register_as
                /\ Manifest[p].module = Manifest[a].module
                /\ Manifest[p].variants = Manifest[a].variants
                /\ f.substitute_for # <<>>
                /\ Manifest[a].registerAs = f.substitute_for
                /\ Manifest[a].substituteFor = f.substitute_for
                /\ Manifest[a].registerAs # f.register_as

\* C3 witness: a completed run whose manifest holds an entry of pass 2.
AliasReached == pc = "done" /\ Len(Manifest) > PrimaryCount

\* C4: a family whose substitute_for equals its register_as in lowercase and
\* that has an available variant has exactly one manifest entry, the primary.
SelfSubstituteOnce ==
    pc = "done" =>
        \A f \in Families :
            (/\ f.substitute_for # <<>>
             /\ lower(f.substitute_for) = lower(f.register_as)
             /\ HasAvailable(f)) =>
                \E p \in 1..PrimaryCount :
                    /\ EntriesOf(f) = {p}
                    /\ Manifest[p].key = lower(f.register_as)
                    /\ Manifest[p].registerAs = f.register_as

\* C4 witness: completed runs over the calibri-light entry and over a family
\* whose two names differ in case only, each with its file present.
SelfSubstituteReached ==
    /\ pc = "done"
    /\ \E f \in Families :
        /\ f.substitute_for # <<>>
        /\ lower(f.substitute_for) = lower(f.register_as)
        /\ (f = CalibriLight \/ f.substitute_for # f.register_as)
        /\ HasAvailable(f)
        /\ Cardinality(EntriesOf(f)) = 1

\* C5: when a run has completed, for every family the export names of its
\* module, in order, are the declared variant tags whose source file exists, in
\* declaration order, and so is the variants list of each of its manifest
\* entries.
ExportsAreManifestVariants ==
    pc = "done" =>
        \A f \in Families :
            /\ ModuleFile(f.module_name) \in DOMAIN outdir
            /\ ExportNames(outdir[ModuleFile(f.module_name)]) = AvailableTags(f)
            /\ \A k \in EntriesOf(f) : Manifest[k].variants = AvailableTags(f)

\* C5 witness: a completed run over a family with 4 declared variants of which
\* exactly one, not the last, has no source file: 3 exports, 3 tags.
ThreeOfFourReached ==
    /\ pc = "done"
    /\ \E f \in Families :
        /\ Len(f.variants) = 4
        /\ f.variants[2].ttf \notin existing
        /\ Len(ExportNames(outdir[ModuleFile(f.module_name)])) = 3
        /\ \E k \in EntriesOf(f) : Len(Manifest[k].variants) = 3

\* C6: when a run has completed, a family none of whose source files exists has
\* no manifest entry, primary or alias.
NoEntryForAbsentFamily ==
    pc = "done" =>
        \A f \in Families : ~HasAvailable(f) => EntriesOf(f) = {}

\* C6 witness: a completed run over a catalog in which a family with a distinct
\* substitute_for has no source file while another family has entries.
AbsentFamilyReached ==
    /\ pc = "done"
    /\ Len(Manifest) > 0
    /\ \E f \in Families :
        /\ ~HasAvailable(f)
        /\ HasDistinctSubstitute(f)
        /\ EntriesOf(f) = {}

\* C7: when a run has completed, the module files it has written are exactly
\* those of the families with an available variant.
ModulesOnlyForAvailableFamilies ==
    pc = "done" =>
        {writeLog[k] : k \in 1..Len(writeLog)} \ {ManifestFile}
            = {ModuleFile(f.module_name) : f \in {g \in Families : HasAvailable(g)}}

\* The (pass, family) pairs that emit an entry under key k.
Producers(k) ==
    {<<1, f>> : f \in {g \in Families :
                          HasAvailable(g) /\ lower(g.register_as) = k}}
    \cup
    {<<2, f>> : f \in {g \in Families :
                          /\ HasAvailable(g)
                          /\ HasDistinctSubstitute(g)
                          /\ lower(g.substitute_for) = k}}

\* Producer x comes after producer y in processing order: a later pass, or the
\* same pass and a greater moduleKey.
Later(x, y) ==
    \/ x[1] > y[1]
    \/ x[1] = y[1] /\ StrLess(y[2].module_name, x[2].module_name)

\* Every lowercase name of the catalog.
CandidateKeys ==
    {lower(f.register_as) : f \in Families}
        \cup {lower(f.substitute_for) : f \in Families}

\* C8: when a run has completed, a key that two or more entries are emitted
\* under is mapped to the entry of the producer last in processing order.
LastWriteWins ==
    pc = "done" =>
        \A k \in CandidateKeys :
            Cardinality(Producers(k)) >= 2 =>
                /\ k \in DOMAIN BUNDLED_FONTS(Manifest)
                /\ \E w \in Producers(k) :
                    /\ \A o \in Producers(k) \ {w} : Later(w, o)
                    /\ BUNDLED_FONTS(Manifest)[k].module
                           = ModuleRef(w[2].module_name)
                    /\ BUNDLED_FONTS(Manifest)[k].registerAs
                           = (IF w[1] = 1 THEN w[2].register_as
                                          ELSE w[2].substitute_for)
                    /\ BUNDLED_FONTS(Manifest)[k].variants = AvailableTags(w[2])

\* C8 witness: a completed run in which one key is emitted by a primary entry
\* and by the alias entries of two other families.
CollisionReached ==
    /\ pc = "done"
    /\ \E k \in CandidateKeys :
        /\ Cardinality(Producers(k)) >= 3
        /\ \E x, y \in Producers(k) : x[1] = 1 /\ y[1] = 2

\* C9: a run that completes after an earlier completed run over the same catalog
\* and source directory has written the same files and leaves OUTPUT_DIR, the
\* modules and the manifest, exactly as the earlier run left it.
RerunSameOutput ==
    (pc = "done" /\ run > 1) =>
        /\ outdir = prevOut
        /\ {writeLog[k] : k \in 1..Len(writeLog)} = DOMAIN prevOut

\* C9 witness: a second completed run that wrote modules with exports and a
\* manifest with entries.
RerunReached ==
    /\ pc = "done"
    /\ run > 1
    /\ Len(Manifest) >= 2
    /\ \E f \in Families :
        Len(ExportNames(outdir[ModuleFile(f.module_name)])) >= 2

\* C10: once the loop has finished, CODEPOINTS holds exactly the codepoints of
\* the twelve inclusive ranges: both ends of each, nothing in a gap, nothing
\* below 0x0020 or above 0xFFFD; U+0041 is a member and U+3042 is not.
PolicyIsUnionOfRanges ==
    rangeIdx > Len(UNICODE_RANGES) =>
        /\ Len(UNICODE_RANGES) = 12
        /\ CODEPOINTS \subseteq 0..CodepointLimit
        /\ \A c \in 0..CodepointLimit :
            c \in CODEPOINTS <=>
                \E i \in 1..Len(UNICODE_RANGES) :
                    UNICODE_RANGES[i][1] <= c /\ c <= UNICODE_RANGES[i][2]
        /\ 65 \in CODEPOINTS
        /\ 12354 \notin CODEPOINTS

\* C10 witness: the loop has finished with the ends of the first, the
\* one-codepoint and the last range added and their neighbours left out.
PolicyBuilt ==
    /\ rangeIdx > Len(UNICODE_RANGES)
    /\ {32, 591, 65279, 65532, 65533} \subseteq CODEPOINTS
    /\ {31, 592, 65278, 65280, 65534} \cap CODEPOINTS = {}

\* The source files of the variants of f that exist, in declaration order: the
\* calls of subset_to_woff2 that generate_family_module makes for f.
PresentFiles(f) ==
    LET present == SelectSeq(f.variants, LAMBDA v : v.ttf \in existing)
    IN  [j \in 1..Len(present) |-> present[j].ttf]

\* The calls of subset_to_woff2 made for the first k families of the loop.
RECURSIVE SubsetCallsThrough(_)
SubsetCallsThrough(k) ==
    IF k = 0 THEN <<>> ELSE SubsetCallsThrough(k - 1) \o PresentFiles(items[k])

\* The module files of the first k families of the loop, in loop order.
ModuleFilesThrough(k) == [i \in 1..k |-> ModuleFile(items[i].module_name)]

\* C11: once subset_to_woff2 has raised on a present variant, the run has
\* failed and stays so: the module of the family being processed is not
\* written, the modules written are those of the families before it in the
\* sorted order and no other, the failing call is the last call of the
\* subsetter, and the manifest is not written in that run.
SubsetFailureAborts ==
    failure = "subset_to_woff2" =>
        /\ pc = "failed"
        /\ Exists(Family.variants[varIdx].ttf)
        /\ ModuleFile(Family.module_name) \notin
               {writeLog[i] : i \in 1..Len(writeLog)}
        /\ writeLog = ModuleFilesThrough(famIdx - 1)
        /\ ManifestFile \notin {writeLog[i] : i \in 1..Len(writeLog)}
        /\ \E n \in 1..Len(PresentFiles(Family)) :
               /\ subsetLog = SubsetCallsThrough(famIdx - 1)
                                  \o SubSeq(PresentFiles(Family), 1, n)
               /\ subsetLog[Len(subsetLog)] = Family.variants[varIdx].ttf
        /\ run > 1 => outdir[ManifestFile] = prevOut[ManifestFile]

\* C11 witness: the subsetter has raised on a variant that is not the first of
\* its family, in a family with families before and after it in the sorted order.
SubsetFailureReached ==
    /\ failure = "subset_to_woff2"
    /\ famIdx > 1
    /\ famIdx < Len(items)
    /\ varIdx > 1
    /\ Len(writeLog) > 0

\* C12: a declared variant whose source file is absent is skipped and nothing
\* else.  The subsetter is only ever called on existing files; when the loop
\* of main has finished a family, the subsetter has been called on every
\* existing file of every family so far, in order, and the module written for
\* the family exports every available tag; and, no call raising, the run
\* reaches completion with every module and then the manifest written,
\* whatever files are missing.
MissingVariantSkippedOnly ==
    /\ [](/\ \A i \in 1..Len(subsetLog) : subsetLog[i] \in existing
          /\ pc = "main_loop" =>
               /\ subsetLog = SubsetCallsThrough(famIdx - 1)
               /\ writeLog = ModuleFilesThrough(famIdx - 1)
               /\ \A k \in 1..(famIdx - 1) :
                      ExportNames(outdir[ModuleFile(items[k].module_name)])
                          = AvailableTags(items[k])
          /\ pc = "done" =>
               /\ subsetLog = SubsetCallsThrough(Len(items))
               /\ writeLog = Append(ModuleFilesThrough(Len(items)), ManifestFile)
               /\ total_modules = Len(FONT_FAMILIES))
    /\ <>(pc = "done")

\* C12 witness: a completed run in which a family has an absent variant
\* declared before a present one, and a later family has a present variant.
MissingVariantReached ==
    /\ pc = "done"
    /\ \E a, b \in 1..Len(items) :
        /\ a < b
        /\ \E i, j \in 1..Len(items[a].variants) :
            /\ i < j
            /\ items[a].variants[i].ttf \notin existing
            /\ items[a].variants[j].ttf \in existing
            /\ items[a].variants[j].ttf \in {subsetLog[n] : n \in 1..Len(subsetLog)}
        /\ HasAvailable(items[b])

\* C13: once OUTPUT_DIR.mkdir or the write of a module file has raised, the
\* run has failed and stays so, and the manifest is not written in that run:
\* manifest.ts is absent or as the previous run left it.  After a failed
\* mkdir nothing is written; after a failed module write the files written
\* are the modules of the families before the current one in sorted order,
\* each still holding its header and the exports of its available variants.
WriteFailureAborts ==
    failure \in {"mkdir", "write_module"} =>
        /\ pc = "failed"
        /\ ManifestFile \notin {writeLog[i] : i \in 1..Len(writeLog)}
        /\ IF run = 1
           THEN ManifestFile \notin DOMAIN outdir
           ELSE outdir[ManifestFile] = prevOut[ManifestFile]
        /\ failure = "mkdir" =>
               /\ writeLog = <<>>
               /\ outdir = prevOut
        /\ failure = "write_module" =>
               /\ writeLog = ModuleFilesThrough(famIdx - 1)
               /\ \A k \in 1..(famIdx - 1) :
                      /\ ModuleFile(items[k].module_name) \in DOMAIN outdir
                      /\ outdir[ModuleFile(items[k].module_name)][1]
                             = ModuleHeader(items[k])
                      /\ ExportNames(outdir[ModuleFile(items[k].module_name)])
                             = AvailableTags(items[k])

\* C13 witness: the first run has failed on a module write after writing the
\* module of an earlier family, which has exports; no manifest exists.
PartialModulesReached ==
    /\ failure = "write_module"
    /\ run = 1
    /\ famIdx > 1
    /\ HasAvailable(items[1])
    /\ ModuleFile(items[1].module_name) \in DOMAIN outdir
    /\ ManifestFile \notin DOMAIN outdir

\* C14: when a run has completed, every manifest entry comes from a family of
\* the catalog (it carries the family's register_as, or its substitute_for as
\* an alias) whose module_name alone gives the entry's module reference
\* ("./" + module_name + ".js"), and the module file of that module_name was
\* written in that run, starts with that family's header and has at least one
\* export.
EntriesNameWrittenModules ==
    pc = "done" =>
        \A k \in 1..Len(Manifest) :
            \E f \in Families :
                /\ \/ Manifest[k].registerAs = f.register_as
                   \/ /\ f.substitute_for # <<>>
                      /\ Manifest[k].registerAs = f.substitute_for
                /\ Manifest[k].module
                       = <<".", "/">> \o f.module_name \o <<".", "j", "s">>
                /\ f.module_name \o <<".", "t", "s">>
                       \in {writeLog[i] : i \in 1..Len(writeLog)}
                /\ outdir[f.module_name \o <<".", "t", "s">>][1] = ModuleHeader(f)
                /\ ExportNames(outdir[f.module_name \o <<".", "t", "s">>]) # <<>>

\* C14 witness: a completed run whose manifest has an entry for a family whose
\* manifest key differs from its module_name, next to a family of the catalog
\* with no existing variant, whose module is written empty.
ReferencedAndEmptyReached ==
    /\ pc = "done"
    /\ \E k \in 1..Len(Manifest) : \E f \in Families :
           /\ Manifest[k].registerAs = f.register_as
           /\ Manifest[k].key # f.module_name
    /\ \E g \in Families :
           /\ ~HasAvailable(g)
           /\ ExportNames(outdir[ModuleFile(g.module_name)]) = <<>>

\* C15: when a run has completed, the keys of the manifest entries are exactly
\* the lowercase register_as values and the lowercase substitute_for values
\* of the families with at least one existing variant, and every entry's key
\* is the lowercase of the entry's own registerAs field.
KeysAreLowercaseNames ==
    pc = "done" =>
        /\ {Manifest[k].key : k \in 1..Len(Manifest)}
               = {lower(f.register_as) : f \in {g \in Families : HasAvailable(g)}}
                 \cup {lower(f.substitute_for) :
                          f \in {g \in Families : /\ HasAvailable(g)
                                                  /\ g.substitute_for # <<>>}}
        /\ \A k \in 1..Len(Manifest) :
               Manifest[k].key = lower(Manifest[k].registerAs)

\* C15 witness: a completed run over a catalog with an available family that
\* declares a substitute_for with capitals and an unavailable family that does
\* too; the manifest holds both keys of the first and neither of the second.
KeysOfAvailableOnlyReached ==
    /\ pc = "done"
    /\ \E f, g \in Families :
        /\ HasAvailable(f)
        /\ HasDistinctSubstitute(f)
        /\ lower(f.substitute_for) # f.substitute_for
        /\ lower(f.substitute_for) \in {Manifest[k].key : k \in 1..Len(Manifest)}
        /\ ~HasAvailable(g)
        /\ HasDistinctSubstitute(g)
        /\ lower(g.register_as) \notin {Manifest[k].key : k \in 1..Len(Manifest)}
        /\ lower(g.substitute_for) \notin {Manifest[k].key : k \in 1..Len(Manifest)}

\* The family names the stress-test generator announces: its five lists.
AnnouncedFamilies ==
    OFFICE_SUBSTITUTES \o GOOGLE_FONTS_SANS \o GOOGLE_FONTS_SERIF
        \o GOOGLE_FONTS_MONO \o GOOGLE_FONTS_SYMBOL

\* C16: the deck the stress-test generator saves has, for each of the 42
\* family names of its five lists, at least one text run set in that family.
EveryFamilyHasRun ==
    at = "saved" =>
        /\ Len(AnnouncedFamilies) = 42
        /\ \A i \in 1..Len(AnnouncedFamilies) :
               \E s \in 1..Len(prs) : \E r \in 1..Len(prs[s]) :
                   prs[s][r].font = AnnouncedFamilies[i]

\* C17: in every run of main the files are written one family at a time in
\* ascending module_name order and the manifest last: nothing is written
\* after manifest.ts, of two module writes the earlier is of the smaller
\* module_name, while a family is being emitted only the modules of the
\* families before it are written, and generate_manifest runs only once the
\* module of every family of the catalog has been written.
ModulesInOrderThenManifest ==
    /\ \A i, j \in 1..Len(writeLog) :
           i < j =>
               /\ writeLog[i] # ManifestFile
               /\ writeLog[j] # ManifestFile =>
                      \E f, g \in Families :
                          /\ writeLog[i] = ModuleFile(f.module_name)
                          /\ writeLog[j] = ModuleFile(g.module_name)
                          /\ StrLess(f.module_name, g.module_name)
    /\ pc = "emit" => writeLog = ModuleFilesThrough(famIdx - 1)
    /\ pc \in {"pass1", "pass2", "write_manifest", "done"} =>
           \A f \in Families :
               \E i \in 1..Len(writeLog) :
                   /\ writeLog[i] = ModuleFile(f.module_name)
                   /\ i <= Len(FONT_FAMILIES)
    /\ pc = "done" =>
           /\ Len(writeLog) = Len(FONT_FAMILIES) + 1
           /\ writeLog[Len(writeLog)] = ManifestFile

\* C17 witness: a completed run over a catalog declared in another order than
\* the sorted one, with three or more modules and then the manifest written.
OrderedWritesReached ==
    /\ pc = "done"
    /\ Len(writeLog) >= 4
    /\ writeLog[Len(writeLog)] = ManifestFile
    /\ sorted(FONT_FAMILIES) # FONT_FAMILIES
    /\ writeLog[1] # ModuleFile(FONT_FAMILIES[1].module_name)

\* The family whose module the entry refers to.
FamilyOf(entry) ==
    CHOOSE f \in Families : entry.module = ModuleRef(f.module_name)

\* C18: the entries generate_manifest has emitted so far are first primary
\* entries (registerAs is the family's register_as), one for each family with
\* an existing variant that pass 1 has come to, in ascending module_name
\* order, and then, only once pass 1 is over, alias entries (registerAs is
\* the family's substitute_for), in ascending module_name order; when the
\* manifest is complete it has exactly one primary entry per family with an
\* existing variant.
TwoOrderedPasses ==
    LET emitted == Entries(manifest_lines)
        primary(k) == emitted[k].registerAs = FamilyOf(emitted[k]).register_as
    IN  pc \in {"pass1", "pass2", "write_manifest", "done"} =>
            /\ \A k \in 1..Len(emitted) :
                   \/ primary(k)
                   \/ /\ pc # "pass1"
                      /\ emitted[k].registerAs = FamilyOf(emitted[k]).substitute_for
            /\ \A i, j \in 1..Len(emitted) :
                   i < j =>
                       /\ primary(j) => primary(i)
                       /\ primary(i) = primary(j) =>
                              StrLess(FamilyOf(emitted[i]).module_name,
                                      FamilyOf(emitted[j]).module_name)
            /\ pc # "pass1" =>
                   {FamilyOf(emitted[k]) : k \in {n \in 1..Len(emitted) : primary(n)}}
                       = {f \in Families : HasAvailable(f)}

\* C18 witness: a completed run over a catalog declared in another order than
\* the sorted one, whose manifest has two primary entries followed by two
\* alias entries, the alias keys being in descending order.
AliasOrderByModuleReached ==
    /\ pc = "done"
    /\ sorted(FONT_FAMILIES) # FONT_FAMILIES
    /\ PrimaryCount >= 2
    /\ Len(Manifest) >= PrimaryCount + 2
    /\ StrLess(Manifest[PrimaryCount + 2].key, Manifest[PrimaryCount + 1].key)
    /\ StrLess(FamilyOf(Manifest[PrimaryCount + 1]).module_name,
               FamilyOf(Manifest[PrimaryCount + 2]).module_name)

\* C19: for the catalog as shipped, 42 families, the lowercase register_as
\* values and the lowercase substitute_for values of the families whose
\* substitute_for differs from register_as are 56 pairwise distinct names
\* (a fact of the catalog, which no step changes: evaluated on entry);
\* whatever files are present, generate_manifest never emits a key it has
\* emitted before; and with every file present the manifest has 56 entries.
ShippedKeysDistinct ==
    LET withAlias == {f \in Families : f.substitute_for # <<>>
                                       /\ f.substitute_for # f.register_as}
        emitted == Entries(manifest_lines)
    IN  /\ pc = "start" =>
               /\ Len(FONT_FAMILIES) = 42
               /\ Cardinality(Families) = 42
               /\ Cardinality(withAlias) = 14
               /\ Cardinality({lower(f.register_as) : f \in Families}
                                 \cup {lower(f.substitute_for) : f \in withAlias})
                      = 56
        /\ \A i, j \in 1..Len(emitted) :
               i # j => emitted[i].key # emitted[j].key
        /\ (pc = "done" /\ existing = SourceFiles(FONT_FAMILIES)) =>
               Len(Manifest) = 56

\* C19 witness: a completed run over the shipped catalog with every source
\* file present, the manifest written with its 56 entries.
ShippedAllPresentReached ==
    /\ pc = "done"
    /\ FONT_FAMILIES = ShippedCatalog
    /\ existing = SourceFiles(ShippedCatalog)
    /\ Len(Manifest) = 56
    /\ Cardinality({Manifest[k].key : k \in 1..Len(Manifest)}) = 56

=============================================================================
